---- MODULE Spec2Model ----
(***************************************************************************)
(* DisplayController.apply_profile_wayland and ensure_colord_device of     *)
(* dell_g15_color_control.py as a state machine.  Two callers may run      *)
(* apply concurrently (the code takes no lock); each step that touches the *)
(* registry, the clock, temp_profile.xml or the profile directory is one   *)
(* atomic action.  Spec lets two calls overlap in one environment;         *)
(* SingleSpec makes one call in every environment (template, registry,     *)
(* directory content) and with every argument.                             *)
(*                                                                         *)
(* Numbers: floats are fixed-point integers.  Chromaticities are in units   *)
(* of 1/ChromaUnit, saturation in units of 1/SatUnit, the saturation       *)
(* factor in units of 1/FactorUnit, gamma in tenths.  The template's       *)
(* primaries are XYZ values in hundredths, the white point in 1/10000;     *)
(* the xyY conversions do not depend on the unit of XYZ.                   *)
(* Strings that are searched (device ids, colormgr output) are sequences   *)
(* of characters.                                                          *)
(***************************************************************************)
EXTENDS Integers, Sequences, FiniteSets, TLC

VARIABLES
    callers,     \* the calls of apply_profile_wayland that will be made
    template,    \* the document iccToXml produces from the base profile
    registry,    \* colord's device list, in creation order
    dir,         \* files of ~/.local/share/icc other than temp_profile.xml
    xmlFile,     \* content of temp_profile.xml
    now,         \* last value of time.time() * 1000 that a call has read
    pc,          \* per call: position in apply_profile_wayland
    args,        \* per call: the arguments display, saturation, gamma
    loc,         \* per call: local variables of apply_profile_wayland
    result,      \* per call: what the call returned
    hist,        \* per call: what the call did (steps, commands, deletions)
    applierLog,  \* kscreen-doctor invocations that exited 0
    calc         \* inputs and outputs of a computation that is run on its own

vars ==
    <<calc, callers, template, registry, dir, xmlFile, now, pc, args, loc, result, hist,
      applierLog>>

----------------------------------------------------------------------------
\* Bounds and units

Calls == {1, 2}

MaxTime == 1

MaxOld == 4

ChromaUnit == 10 * 100

SatUnit == 10 * 100

FactorUnit == 10 * 10

Max(a, b) == IF a >= b THEN a ELSE b

Min(a, b) == IF a <= b THEN a ELSE b

Abs(a) == IF a >= 0 THEN a ELSE 0 - a

\* a / b rounded to the nearest unit, as float arithmetic does
DivRound(a, b) ==
    LET n == IF b < 0 THEN 0 - a ELSE a
        d == Abs(b)
    IN  (n + d \div 2) \div d

Range(s) == {s[i] : i \in 1..Len(s)}

----------------------------------------------------------------------------
\* Strings that the code searches

eDP1 == <<"e", "D", "P", "-", "1">>

DP1 == <<"D", "P", "-", "1">>

Displays == {eDP1, DP1}

\* Python's `a in b` on strings
Contains(hay, needle) ==
    \E i \in 0..(Len(hay) - Len(needle)) :
        \A j \in 1..Len(needle) : hay[i + j] = needle[j]

RECURSIVE GetDevicesOutput(_)
\* stdout of `colormgr get-devices`: one "Device ID: <id>" line per device
GetDevicesOutput(devs) ==
    IF devs = <<>> THEN <<>>
    ELSE <<"I", "D", ":">> \o Head(devs) \o <<"\n">> \o GetDevicesOutput(Tail(devs))

----------------------------------------------------------------------------
\* Profile documents (the XML tree of iccToXml)

NoXYZ == <<0, 0, 0>>

NoCurve == <<0, 0>>

NoDesc == <<0, 0, 0>>

Tag(type, sigs, xyz, curve, desc) ==
    [type |-> type, sigs |-> sigs, xyz |-> xyz, curve |-> curve, desc |-> desc]

XYZTag(sig, xyz) == Tag("XYZType", <<sig>>, xyz, NoCurve, NoDesc)

CurveTag(type, sigs, curve) == Tag(type, sigs, NoXYZ, curve, NoDesc)

DescTag == Tag("textDescriptionType", <<"desc">>, NoXYZ, NoCurve, NoDesc)

Primaries == <<"rXYZ", "gXYZ", "bXYZ">>

TRCSigs == {"rTRC", "gTRC", "bTRC"}

\* the sRGB curve of the base profile, as an exponent num/den
SrgbCurve == <<22, 10>>

SrgbRed == <<44, 22, 1>>

SrgbGreen == <<39, 72, 10>>

SrgbBlue == <<14, 6, 71>>

WtptTag == XYZTag("wtpt", <<96, 100, 82>>)

\* sRGB with one sampled curve shared by the three channels
TemplateShared ==
    [class |-> "spac",
     tags |-> <<DescTag, WtptTag, XYZTag("rXYZ", SrgbRed), XYZTag("gXYZ", SrgbGreen),
                XYZTag("bXYZ", SrgbBlue),
                CurveTag("curveType", <<"rTRC", "gTRC", "bTRC">>, SrgbCurve)>>]

\* sRGB whose tone curves are parametric (ICC v4 profiles)
TemplateParametric ==
    [class |-> "spac",
     tags |-> <<DescTag, WtptTag, XYZTag("rXYZ", SrgbRed), XYZTag("gXYZ", SrgbGreen),
                XYZTag("bXYZ", SrgbBlue),
                CurveTag("parametricCurveType", <<"rTRC", "gTRC", "bTRC">>, SrgbCurve)>>]

\* a malformed template: no blue primary, one sampled curve per channel
TemplateNoBlue ==
    [class |-> "spac",
     tags |-> <<DescTag, WtptTag, XYZTag("rXYZ", SrgbRed), XYZTag("gXYZ", SrgbGreen),
                CurveTag("curveType", <<"rTRC">>, SrgbCurve),
                CurveTag("curveType", <<"gTRC">>, SrgbCurve),
                CurveTag("curveType", <<"bTRC">>, SrgbCurve)>>]

Templates == {TemplateShared, TemplateParametric, TemplateNoBlue}

EmptyDoc == [class |-> "", tags |-> <<>>]
----------------------------------------------------------------------------
\* Saturation (xyY math)

\* wtpt_xyz, the hard-coded D50 white of the profile connection space
WhiteXYZ == <<9642, 10000, 8249>>

\* xyz_to_xyy: <<x, y, Y>>, with the D65 fallback when X + Y + Z = 0
xyz_to_xyy(XYZ) ==
    LET s == XYZ[1] + XYZ[2] + XYZ[3]
    IN  IF s = 0 THEN <<DivRound(3127 * ChromaUnit, 10000),
                        DivRound(3290 * ChromaUnit, 10000), XYZ[2]>>
        ELSE <<DivRound(XYZ[1] * ChromaUnit, s), DivRound(XYZ[2] * ChromaUnit, s),
               XYZ[2]>>

\* xyy_to_xyz: <<X, Y, Z>>, zero when y = 0
xyy_to_xyz(x, y, Y) ==
    IF y = 0 THEN <<0, 0, 0>>
    ELSE <<DivRound(Y * x, y), Y, DivRound(Y * (ChromaUnit - x - y), y)>>

SatFloor == SatUnit \div 100

\* mutant: the factor is the saturation itself, not its inverse
SatFactorDirect(target_sat) == DivRound(FactorUnit * target_sat, SatUnit)

\* mutant: the floor is 0.001
TargetSatLowFloor(saturation) == Max(SatFloor \div 10, saturation)

\* target_sat = max(0.01, float(saturation))
TargetSat(saturation) == Max(SatFloor, saturation)

\* sat_factor = 1.0 / target_sat
SatFactor(target_sat) == DivRound(FactorUnit * SatUnit, target_sat)

\* new_x = white_x + (old_x - white_x) * sat_factor (and the same for y)
ScaleChroma(old, white, sat_factor) ==
    white + DivRound((old - white) * sat_factor, FactorUnit)

White == xyz_to_xyy(WhiteXYZ)

\* the <<new_x, new_y>> the primaries loop computes for one XYZNumber
NewChroma(XYZ, sat_factor) ==
    LET old == xyz_to_xyy(XYZ)
    IN  <<ScaleChroma(old[1], White[1], sat_factor),
          ScaleChroma(old[2], White[2], sat_factor)>>

\* the XYZNumber attributes the primaries loop writes back
ScalePrimary(XYZ, sat_factor) ==
    LET old == xyz_to_xyy(XYZ)
        new == NewChroma(XYZ, sat_factor)
    IN  xyy_to_xyz(new[1], new[2], old[3])

\* tags_map: signature -> index of the XYZType tag carrying it (the last one wins)
TagsMap(doc) ==
    LET idx(sig) == {i \in 1..Len(doc.tags) :
                        doc.tags[i].type = "XYZType" /\ Head(doc.tags[i].sigs) = sig}
    IN  [sig \in {doc.tags[i].sigs[1] : i \in {j \in 1..Len(doc.tags) :
                                                doc.tags[j].type = "XYZType"}}
            |-> CHOOSE i \in idx(sig) : \A k \in idx(sig) : k <= i]

HasAllPrimaries(doc) == \A p \in Range(Primaries) : p \in DOMAIN TagsMap(doc)

\* the saturation block: all three primaries rescaled, or nothing touched
UpdatePrimaries(doc, sat_factor) ==
    IF HasAllPrimaries(doc)
    THEN LET at == {TagsMap(doc)[p] : p \in Range(Primaries)}
         IN  [doc EXCEPT !.tags =
                 [i \in 1..Len(doc.tags) |->
                     IF i \in at
                     THEN [doc.tags[i] EXCEPT !.xyz = ScalePrimary(@, sat_factor)]
                     ELSE doc.tags[i]]]
    ELSE doc

----------------------------------------------------------------------------
\* Gamma (TRC replacement)

\* exponent = 2.2 / float(gamma), as num/den with gamma in tenths
Exponent(gamma) == <<22, gamma>>

\* the curve nodes the removal loop takes out of the Tags container
IsRemovedCurve(tag) ==
    tag.type = "curveType" /\ Range(tag.sigs) \cap TRCSigs # {}

\* the new curveType element, one node tagged rTRC, gTRC and bTRC
NewCurveTag(gamma) == CurveTag("curveType", <<"rTRC", "gTRC", "bTRC">>, Exponent(gamma))

ReplaceToneCurve(doc, gamma) ==
    [doc EXCEPT !.tags =
        Append(SelectSeq(doc.tags, LAMBDA t : ~IsRemovedCurve(t)), NewCurveTag(gamma))]

----------------------------------------------------------------------------
\* Header and description

SetDeviceClass(doc) == [doc EXCEPT !.class = "mntr"]

DescTypes == <<"textDescriptionType", "textType", "multiLocalizedUnicodeType">>

\* indexes of the tags of one description type whose first signature is desc
DescOfType(doc, type) ==
    {i \in 1..Len(doc.tags) : doc.tags[i].type = type /\ Head(doc.tags[i].sigs) = "desc"}

\* desc_tag_node: the first match of the first description type that has one
DescIndex(doc) ==
    LET types == {k \in 1..Len(DescTypes) : DescOfType(doc, DescTypes[k]) # {}}
    IN  IF types = {} THEN 0
        ELSE LET k == CHOOSE k \in types : \A m \in types : k <= m
                 S == DescOfType(doc, DescTypes[k])
             IN  CHOOSE i \in S : \A j \in S : i <= j

\* new_desc = f"Sat{target_sat}_Gam{gamma}_{timestamp}"
SetDescription(doc, target_sat, gamma, timestamp) ==
    IF DescIndex(doc) = 0 THEN doc
    ELSE [doc EXCEPT !.tags[DescIndex(doc)].desc = <<target_sat, gamma, timestamp>>]

\* new_x, new_y of each pass of the primaries loop (none when the loop is skipped)
LoopChroma(doc, sat_factor) ==
    IF HasAllPrimaries(doc)
    THEN [p \in Range(Primaries) |-> NewChroma(doc.tags[TagsMap(doc)[p]].xyz, sat_factor)]
    ELSE [p \in Range(Primaries) |-> <<0, 0>>]

\* the in-memory edit of lines 254-391, in the code's order
EditDocument(doc, saturation, gamma, timestamp) ==
    LET target_sat == TargetSat(saturation)
        d1 == UpdatePrimaries(doc, SatFactor(target_sat))
        d2 == ReplaceToneCurve(d1, gamma)
        d3 == SetDeviceClass(d2)
    IN  SetDescription(d3, target_sat, gamma, timestamp)
----------------------------------------------------------------------------
\* Files of the profile directory

FileName(prefix, token, ext) == [prefix |-> prefix, token |-> token, ext |-> ext]

\* icc_path = custom_profile_{timestamp}.icc
IccPath(timestamp) == FileName("custom_profile_", timestamp, ".icc")

File(name, mtime, content, by) ==
    [name |-> name, mtime |-> mtime, content |-> content, by |-> by]

\* f.startswith("custom_profile_") and f.endswith(".icc")
Matches(name) == name.prefix = "custom_profile_" /\ name.ext = ".icc"

Generated(d) == {f \in d : Matches(f.name)}

RECURSIVE SortedByMtime(_)
\* files.sort(key=os.path.getmtime): every order the sort can give, oldest
\* first; files of equal mtime keep the arbitrary order of os.listdir
SortedByMtime(S) ==
    IF S = {} THEN {<<>>}
    ELSE UNION {{<<f>> \o rest : rest \in SortedByMtime(S \ {f})} :
                    f \in {g \in S : \A h \in S : g.mtime <= h.mtime}}

\* the number of generated profiles the cleanup loop leaves alone
Keep == 2

\* mutant: the list is sorted newest first, so the loop takes the newest
PoppedNewest(files) ==
    IF Len(files) > 2 THEN {files[i] : i \in 3..Len(files)} ELSE {}

\* the files the loop `while len(files) > 2: oldest = files.pop(0)` takes
\* from the front of the sorted list
Popped(files) ==
    IF Len(files) > Keep THEN {files[i] : i \in 1..(Len(files) - Keep)} ELSE {}

\* what the loop can take from a directory, for every order the sort can give
Poppable(d) == {Popped(files) : files \in SortedByMtime(Generated(d))}

\* files of the directory that no apply call generated
OtherFiles ==
    {File(FileName("custom_profile_", 0 - 1, ".icc.bak"), 0 - 9, EmptyDoc, 0),
     File(FileName("srgb_", 0 - 2, ".icc"), 0 - 9, EmptyDoc, 0)}

\* k profiles left by earlier applies, with tokens -k..-1; their mtimes follow
\* the tokens ("asc"), run against them ("desc"), are all equal ("tie") or are
\* later than any reading of the clock during the calls ("future": the files
\* were written before the system clock was set back)
OldProfiles(k, pattern) ==
    {File(IccPath(i - k - 1),
          CASE pattern = "asc" -> i - k - 1
            [] pattern = "desc" -> 0 - i
            [] pattern = "future" -> MaxTime + i
            [] OTHER -> 0 - 1,
          EmptyDoc, 0) : i \in 1..k}

InitDirs ==
    {OtherFiles} \cup
    {OtherFiles \cup OldProfiles(k, p) : k \in {2, MaxOld}, p \in {"asc", "desc", "tie", "future"}}

----------------------------------------------------------------------------
\* State

SatInputs == {0, 5, SatUnit}

GammaInputs == {10, 22}

Args(display, saturation, gamma) ==
    [display |-> display, saturation |-> saturation, gamma |-> gamma]

\* the arguments a call can be made with
Inputs == {Args(d, s, g) : d \in Displays, s \in SatInputs, g \in GammaInputs}

\* the arguments of the calls that overlap
FewInputs == {Args(eDP1, 0, 10), Args(DP1, SatUnit, 22)}

NoChroma == [p \in Range(Primaries) |-> <<0, 0>>]

NoLoc ==
    [timestamp |-> 0, target_sat |-> 0, parsed |-> EmptyDoc, chroma |-> NoChroma,
     tree |-> EmptyDoc]

NoHist ==
    [steps |-> {}, queried |-> FALSE, absent |-> FALSE, creates |-> 0,
     regFailed |-> FALSE, pruneFailed |-> FALSE, deleted |-> {}, wrote |-> {}]

\* what every initial state has in common: no call has started
InitCalls ==
    /\ xmlFile = EmptyDoc
    /\ now = 0
    /\ pc = [c \in Calls |-> "idle"]
    /\ loc = [c \in Calls |-> NoLoc]
    /\ result = [c \in Calls |-> "none"]
    /\ hist = [c \in Calls |-> NoHist]
    /\ applierLog = {}

NoCalc == [op |-> "none"]

\* callers on several threads or in several processes: the calls may overlap
Init ==
    /\ calc = NoCalc
    /\ callers = Calls
    /\ args \in [Calls -> FewInputs]
    /\ template = TemplateShared
    /\ registry = <<>>
    /\ dir = OtherFiles \cup OldProfiles(2, "asc")
    /\ InitCalls

\* one call, for every state of the system it can be made in
SingleInit ==
    /\ calc = NoCalc
    /\ callers = {1}
    /\ args \in [Calls -> Inputs]
    /\ \A c \in Calls \ {1} : args[c] = args[1]
    /\ template \in Templates
    /\ registry \in {<<>>, <<eDP1>>}
    /\ dir \in InitDirs
    /\ InitCalls

Goto(c, label) == pc' = [pc EXCEPT ![c] = label]

Did(c, step) == hist' = [hist EXCEPT ![c].steps = @ \cup {step}]

\* except Exception as e: ... return False, str(e)
Fail(c) ==
    /\ Goto(c, "done")
    /\ result' = [result EXCEPT ![c] = "failure"]
----------------------------------------------------------------------------
\* apply_profile_wayland(display, saturation, gamma) is called

Start(c) ==
    /\ c \in callers
    /\ pc[c] = "idle"
    /\ Goto(c, "get_devices")
    /\ UNCHANGED <<calc, callers, template, registry, dir, xmlFile, now, args, loc, result, hist,
                   applierLog>>

----------------------------------------------------------------------------
\* ensure_colord_device(display_name)

\* display_name in res.stdout
DeviceFound(display_name, devs) == Contains(GetDevicesOutput(devs), display_name)

\* colormgr get-devices, then the test of its output
GetDevices(c) ==
    /\ pc[c] = "get_devices"
    /\ \/ \* the query raises: "Error ensuring colord device", return False
          /\ hist' = [hist EXCEPT ![c].regFailed = TRUE]
          /\ Goto(c, "base")
       \/ /\ DeviceFound(args[c].display, registry)
          /\ hist' = [hist EXCEPT ![c].queried = TRUE,
                                  ![c].absent = args[c].display \notin Range(registry),
                                  ![c].steps = @ \cup {"registered"}]
          /\ Goto(c, "base")
       \/ /\ ~DeviceFound(args[c].display, registry)
          /\ hist' = [hist EXCEPT ![c].queried = TRUE,
                                  ![c].absent = args[c].display \notin Range(registry)]
          /\ Goto(c, "create_device")
    /\ UNCHANGED <<calc, callers, template, registry, dir, xmlFile, now, args, loc, result, applierLog>>

\* colormgr create-device <id> normal display; it exits non-zero when the id
\* is already registered, and may fail for other reasons
CreateDevice(c) ==
    /\ pc[c] = "create_device"
    /\ \/ /\ args[c].display \notin Range(registry)
          /\ registry' = Append(registry, args[c].display)
          /\ hist' = [hist EXCEPT ![c].creates = @ + 1,
                                  ![c].steps = @ \cup {"registered"}]
       \/ /\ hist' = [hist EXCEPT ![c].creates = @ + 1, ![c].regFailed = TRUE]
          /\ UNCHANGED registry
    /\ Goto(c, "base")
    /\ UNCHANGED <<calc, callers, template, dir, xmlFile, now, args, loc, result, applierLog>>

----------------------------------------------------------------------------
\* apply_profile_wayland, steps 1-4

\* 1. Base Profile: one of the two candidate paths exists, or return False
LocateBase(c) ==
    /\ pc[c] = "base"
    /\ \/ Did(c, "template") /\ Goto(c, "tools") /\ UNCHANGED result
       \/ Fail(c) /\ UNCHANGED hist
    /\ UNCHANGED <<calc, callers, template, registry, dir, xmlFile, now, args, loc, applierLog>>

\* 2. Check Tools: both converters are on the PATH, or return False
CheckTools(c) ==
    /\ pc[c] = "tools"
    /\ \/ Did(c, "tools") /\ Goto(c, "paths") /\ UNCHANGED result
       \/ Fail(c) /\ UNCHANGED hist
    /\ UNCHANGED <<calc, callers, template, registry, dir, xmlFile, now, args, loc, applierLog>>

\* 3. Paths: os.makedirs (outside the try block), then the clock is read
AllocatePaths(c) ==
    /\ pc[c] = "paths"
    /\ \/ \E t \in now..MaxTime :
              /\ now' = t
              /\ loc' = [loc EXCEPT ![c].timestamp = t]
              /\ Did(c, "paths")
              /\ Goto(c, "icc_to_xml")
              /\ UNCHANGED result
       \/ \* os.makedirs raises: the exception leaves apply_profile_wayland
          /\ Goto(c, "done")
          /\ result' = [result EXCEPT ![c] = "raised"]
          /\ UNCHANGED <<now, loc, hist>>
    /\ UNCHANGED <<calc, callers, template, registry, dir, xmlFile, args, applierLog>>

\* 4. Convert Base to XML: iccToXml writes temp_profile.xml
IccToXml(c) ==
    /\ pc[c] = "icc_to_xml"
    /\ \/ /\ xmlFile' = template
          /\ Did(c, "toxml")
          /\ Goto(c, "edit")
          /\ UNCHANGED result
       \/ Fail(c) /\ UNCHANGED <<xmlFile, hist>>
    /\ UNCHANGED <<calc, callers, template, registry, dir, now, args, loc, applierLog>>

\* lines 224-391: the factors, ET.parse(xml_path) and the in-memory edit;
\* float(...) raises for an argument that is no number, 2.2 / float(gamma)
\* and 0.0 ** exponent for gamma <= 0, ET.parse for a file that is not XML
Edit(c) ==
    /\ pc[c] = "edit"
    /\ \/ Fail(c) /\ UNCHANGED <<loc, hist>>
       \/   /\ args[c].gamma > 0
            /\ loc' = [loc EXCEPT
                          ![c].target_sat = TargetSat(args[c].saturation),
                          ![c].parsed = xmlFile,
                          ![c].chroma =
                              LoopChroma(xmlFile, SatFactor(TargetSat(args[c].saturation))),
                          ![c].tree = EditDocument(xmlFile, args[c].saturation,
                                                   args[c].gamma, loc[c].timestamp)]
            /\ Did(c, "edit")
            /\ Goto(c, "write")
            /\ UNCHANGED result
    /\ UNCHANGED <<calc, callers, template, registry, dir, xmlFile, now, args, applierLog>>

\* tree.write(xml_path)
WriteXml(c) ==
    /\ pc[c] = "write"
    /\ \/ /\ xmlFile' = loc[c].tree
          /\ Did(c, "write")
          /\ Goto(c, "convert")
          /\ UNCHANGED result
       \/ Fail(c) /\ UNCHANGED <<xmlFile, hist>>
    /\ UNCHANGED <<calc, callers, template, registry, dir, now, args, loc, applierLog>>
----------------------------------------------------------------------------
\* apply_profile_wayland, steps 6-8

\* mutant: subprocess.run without check=True, a failed conversion goes on
ConvertUnchecked(c) ==
    /\ pc[c] = "convert"
    /\ \/ \E t \in now..MaxTime :
              /\ now' = t
              /\ dir' = {f \in dir : f.name # IccPath(loc[c].timestamp)}
                            \cup {File(IccPath(loc[c].timestamp), t, xmlFile, c)}
              /\ hist' = [hist EXCEPT ![c].steps = @ \cup {"convert"},
                                      ![c].wrote = @ \cup {IccPath(loc[c].timestamp)}]
       \/ UNCHANGED <<dir, now, hist>>
    /\ Goto(c, "apply")
    /\ UNCHANGED <<calc, callers, template, registry, xmlFile, args, loc, result, applierLog>>

\* 6. Convert XML to ICC: iccFromXml reads temp_profile.xml as it is now and
\* writes icc_path, replacing a file of that name
Convert(c) ==
    /\ pc[c] = "convert"
    /\ \/ \E t \in now..MaxTime :
              /\ now' = t
              /\ dir' = {f \in dir : f.name # IccPath(loc[c].timestamp)}
                            \cup {File(IccPath(loc[c].timestamp), t, xmlFile, c)}
              /\ hist' = [hist EXCEPT ![c].steps = @ \cup {"convert"},
                                      ![c].wrote = @ \cup {IccPath(loc[c].timestamp)}]
              /\ Goto(c, "apply")
              /\ UNCHANGED result
       \/ Fail(c) /\ UNCHANGED <<dir, now, hist>>
    /\ UNCHANGED <<calc, callers, template, registry, xmlFile, args, loc, applierLog>>

\* cmd = ['kscreen-doctor', f'output.{display}.iccprofile.{icc_path}']
ApplierCommand(c, ok) ==
    [call |-> c, display |-> args[c].display, path |-> IccPath(loc[c].timestamp), ok |-> ok]

\* mutant: subprocess.run without check=True, a failed kscreen-doctor goes on
ApplyProfileUnchecked(c) ==
    /\ pc[c] = "apply"
    /\ \/ /\ applierLog' = applierLog \cup {ApplierCommand(c, TRUE)}
          /\ Did(c, "apply")
       \/ /\ applierLog' = applierLog \cup {ApplierCommand(c, FALSE)}
          /\ UNCHANGED hist
    /\ Goto(c, "cleanup")
    /\ UNCHANGED <<calc, callers, template, registry, dir, xmlFile, now, args, loc, result>>

\* 7. Apply with kscreen-doctor
ApplyProfile(c) ==
    /\ pc[c] = "apply"
    /\ \/ /\ applierLog' = applierLog \cup {ApplierCommand(c, TRUE)}
          /\ Did(c, "apply")
          /\ Goto(c, "cleanup")
          /\ UNCHANGED result
       \/ /\ applierLog' = applierLog \cup {ApplierCommand(c, FALSE)}
          /\ Fail(c)
          /\ UNCHANGED hist
    /\ UNCHANGED <<calc, callers, template, registry, dir, xmlFile, now, args, loc>>

\* mutant: the cleanup is not wrapped in its own try block, so a failed
\* listing reaches the outer handler and the call returns False
CleanupPropagates(c) ==
    /\ pc[c] = "cleanup"
    /\ \/ /\ hist' = [hist EXCEPT ![c].pruneFailed = TRUE]
          /\ result' = [result EXCEPT ![c] = "failure"]
          /\ UNCHANGED dir
       \/ \E popped \in Poppable(dir) :
              \E failed \in SUBSET popped :
                  /\ dir' = dir \ (popped \ failed)
                  /\ hist' = [hist EXCEPT
                                 ![c].steps = @ \cup {"prune"},
                                 ![c].pruneFailed = (failed # {}),
                                 ![c].deleted = {f.name : f \in popped \ failed}]
                  /\ result' = [result EXCEPT ![c] = "success"]
    /\ Goto(c, "done")
    /\ UNCHANGED <<calc, callers, template, registry, xmlFile, now, args, loc, applierLog>>

\* 8. Cleanup Old Profiles, then return True, "Success"
Cleanup(c) ==
    /\ pc[c] = "cleanup"
    /\ \/ \* os.listdir or os.path.getmtime raises: "Cleanup Check Failed"
          /\ hist' = [hist EXCEPT ![c].pruneFailed = TRUE]
          /\ UNCHANGED dir
       \/ \E popped \in Poppable(dir) :
              \E failed \in SUBSET popped :   \* os.remove raises OSError
                  /\ dir' = dir \ (popped \ failed)
                  /\ hist' = [hist EXCEPT
                                 ![c].steps = @ \cup {"prune"},
                                 ![c].pruneFailed = (failed # {}),
                                 ![c].deleted = {f.name : f \in popped \ failed}]
    /\ Goto(c, "done")
    /\ result' = [result EXCEPT ![c] = "success"]
    /\ UNCHANGED <<calc, callers, template, registry, xmlFile, now, args, loc, applierLog>>

----------------------------------------------------------------------------

Next ==
    \E c \in Calls :
        \/ Start(c)
        \/ GetDevices(c)
        \/ CreateDevice(c)
        \/ LocateBase(c)
        \/ CheckTools(c)
        \/ AllocatePaths(c)
        \/ IccToXml(c)
        \/ Edit(c)
        \/ WriteXml(c)
        \/ Convert(c)
        \/ ApplyProfile(c)
        \/ Cleanup(c)

Spec == Init /\ [][Next]_vars

----------------------------------------------------------------------------
\* The saturation math on its own: one primary, two saturation inputs

\* no call of apply_profile_wayland is made
NoCalls ==
    /\ callers = {}
    /\ args = [c \in Calls |-> Args(eDP1, SatUnit, 10)]
    /\ template = TemplateShared
    /\ registry = <<>>
    /\ dir = OtherFiles
    /\ InitCalls

\* saturation inputs of the range [0.01, 4]
SatRange == {SatFloor, 250, 500, SatUnit, 2 * SatUnit, 3 * SatUnit, 4 * SatUnit}

\* XYZNumber values of a primary: sRGB, all zero, and the white point itself
PrimaryInputs == {SrgbRed, SrgbGreen, SrgbBlue, NoXYZ, <<96, 100, 82>>}

SatInit ==
    /\ calc \in {[op |-> "sat", xyz |-> p, s1 |-> a, s2 |-> b, old |-> <<0, 0>>,
                   new1 |-> <<0, 0>>, new2 |-> <<0, 0>>, done |-> FALSE] :
                      p \in PrimaryInputs, a \in SatRange, b \in SatRange}
    /\ NoCalls

\* one pass of the primaries loop for each of the two saturation inputs
ScaleSaturation ==
    /\ calc.op = "sat" /\ ~calc.done
    /\ calc' = [calc EXCEPT
                    !.old = <<xyz_to_xyy(calc.xyz)[1], xyz_to_xyy(calc.xyz)[2]>>,
                    !.new1 = NewChroma(calc.xyz, SatFactor(TargetSat(calc.s1))),
                    !.new2 = NewChroma(calc.xyz, SatFactor(TargetSat(calc.s2))),
                    !.done = TRUE]
    /\ UNCHANGED <<callers, template, registry, dir, xmlFile, now, pc, args, loc, result,
                   hist, applierLog>>

SatNext == ScaleSaturation

SatSpec == SatInit /\ [][SatNext]_vars

SingleSpec == SingleInit /\ [][Next]_vars
----------------------------------------------------------------------------
\* Properties

Done(c) == pc[c] = "done"

Steps(c) == hist[c].steps

\* the steps between the device registration and the cleanup
Steps2to5 == {"template", "tools", "paths", "toxml", "edit", "write", "convert", "apply"}

\* C1: a call that has returned reports success exactly when the template was
\* located and the tool check, path allocation, conversion to XML, edit,
\* write, conversion to ICC and application all completed; this holds
\* whether or not the device registration or the cleanup failed, and the
\* only exception that leaves the call comes from os.makedirs.
C1_SuccessIffSteps ==
    \A c \in Calls :
        Done(c) =>
            /\ result[c] \in {"success", "failure", "raised"}
            /\ (result[c] = "success") <=> (Steps2to5 \subseteq Steps(c))
            /\ (result[c] = "raised") => ("tools" \in Steps(c) /\ "paths" \notin Steps(c))

\* C1 witness: a call returned success although registration and cleanup failed
C1_Witness ==
    \E c \in Calls :
        Done(c) /\ result[c] = "success" /\ hist[c].regFailed /\ hist[c].pruneFailed

\* C2: a call whose parsed document lacks a primaries tag returns a failure
\* and writes no profile and runs no applier (the claim as stated).
C2_MissingPrimaryFails ==
    \A c \in Calls :
        (Done(c) /\ "edit" \in Steps(c) /\ ~HasAllPrimaries(loc[c].parsed)) =>
            /\ result[c] = "failure"
            /\ hist[c].wrote = {}
            /\ \A a \in applierLog : a.call # c

\* the tags of a document that carry a signature
Carriers(doc, sig) == {i \in 1..Len(doc.tags) : sig \in Range(doc.tags[i].sigs)}

\* C3: after the edit every channel signature is carried by exactly one tag
\* of the document, the newly appended curve (the claim as stated).
C3_OneCurvePerChannel ==
    \A c \in Calls :
        "edit" \in Steps(c) =>
            \A sig \in TRCSigs : Carriers(loc[c].tree, sig) = {Len(loc[c].tree.tags)}

Names(d) == {f.name : f \in d}

\* C4: a step that makes a generated profile disappear from the directory is
\* the cleanup of a call whose converter and applier both succeeded, and that
\* call returns success; so no call that fails deletes a generated profile.
C4_PruneOnlyAfterSuccess ==
    [][(Names(Generated(dir)) \ Names(dir') # {}) =>
          \E c \in Calls :
              /\ pc[c] = "cleanup"
              /\ {"convert", "apply"} \subseteq Steps(c)
              /\ result'[c] = "success"
              /\ \A o \in Calls : (Done(o) /\ result[o] # "success") => hist'[o].deleted = {}]_vars

\* C4 witness: a cleanup has deleted a profile
C4_Witness == \E c \in Calls : Done(c) /\ hist[c].deleted # {}

C6_CreateIffAbsent ==
    \A c \in Calls :
        (hist[c].queried /\ pc[c] # "create_device") =>
            ((hist[c].creates > 0) <=> hist[c].absent)

\* C7: two calls that have allocated their paths have different file names
\* (the claim as stated).
C7_DistinctPaths ==
    \A c \in Calls : \A o \in Calls \ {c} :
        ("paths" \in Steps(c) /\ "paths" \in Steps(o)) =>
            IccPath(loc[c].timestamp) # IccPath(loc[o].timestamp)

\* a call is between its registration check and the end of its cleanup
InFlight(c) == pc[c] \notin {"idle", "done"}

\* C8: no two calls are in flight at the same time (the claim as stated).
C8_Serialized == \A c \in Calls : \A o \in Calls \ {c} : ~(InFlight(c) /\ InFlight(o))

\* C9: every applier invocation names the invoking call's display and its own
\* freshly allocated path, and comes after that call's converter wrote that
\* path; a call that ended for want of a tool or on a failed conversion
\* invoked no applier and returned a failure.
C9_ApplierAfterConverter ==
    /\ \A a \in applierLog :
           /\ a.display = args[a.call].display
           /\ a.path = IccPath(loc[a.call].timestamp)
           /\ "convert" \in Steps(a.call)
           /\ a.path \in hist[a.call].wrote
    /\ \A c \in Calls :
           (/\ Done(c)
            /\ \/ "template" \in Steps(c) /\ "tools" \notin Steps(c)
               \/ "write" \in Steps(c) /\ "convert" \notin Steps(c)) =>
               /\ result[c] = "failure"
               /\ \A a \in applierLog : a.call # c

\* C9 witness: two calls with different arguments have both run the applier
C9_Witness ==
    \E a \in applierLog : \E b \in applierLog :
        a.call # b.call /\ a.display # b.display /\ a.ok /\ b.ok

\* the chromaticity <<x, y>> of primary p in the document a call parsed
OldChroma(c, p) ==
    LET xyY == xyz_to_xyy(loc[c].parsed.tags[TagsMap(loc[c].parsed)[p]].xyz)
    IN  <<xyY[1], xyY[2]>>

\* the call edited a document with all primaries for a saturation below 0.01
BelowFloor(c) ==
    /\ "edit" \in Steps(c)
    /\ args[c].saturation < SatFloor
    /\ HasAllPrimaries(loc[c].parsed)

\* C10 as stated: below 0.01 the factor comes from 0.01 and no primary ends
\* farther from white than the template's.
C10_DesaturatedTowardWhite ==
    \A c \in Calls :
        BelowFloor(c) =>
            /\ loc[c].target_sat = SatFloor
            /\ \A p \in Range(Primaries) : \A k \in {1, 2} :
                   Abs(loc[c].chroma[p][k] - White[k]) <= Abs(OldChroma(c, p)[k] - White[k])

\* C10 amended: below 0.01 the factor comes from 0.01, the edit completes, and
\* the offset from white of every primary's chromaticity is 100 times the
\* template's, so it is no nearer to white than the template's.
C10_BoostedAwayFromWhite ==
    \A c \in Calls :
        BelowFloor(c) =>
            /\ loc[c].target_sat = SatFloor
            /\ \A p \in Range(Primaries) : \A k \in {1, 2} :
                   /\ loc[c].chroma[p][k] - White[k] = 100 * (OldChroma(c, p)[k] - White[k])
                   /\ Abs(loc[c].chroma[p][k] - White[k]) >= Abs(OldChroma(c, p)[k] - White[k])

\* C10 witness: an edit with saturation 0.0 completed and moved a primary
C10_Witness ==
    \E c \in Calls :
        /\ BelowFloor(c) /\ args[c].saturation = 0
        /\ \E p \in Range(Primaries) : loc[c].chroma[p] # OldChroma(c, p)

----------------------------------------------------------------------------
\* The tone curve's table on its own: one sample per pass of the loop

\* range(256) of the sample loop
SampleCount == 256

\* the divisor of norm_x: the index of the last sample
LastIndex == 255

\* the largest 16-bit sample
OutputMax == 65535

\* bits of the mantissa the floating-point arithmetic keeps (a double keeps
\* 53): products of two mantissas stay below 2^30
MantBits == 15

RECURSIVE Pow2(_)
Pow2(n) == IF n = 0 THEN 1 ELSE 2 * Pow2(n - 1)

RECURSIVE GCD(_, _)
GCD(a, b) == IF b = 0 THEN a ELSE GCD(b, a % b)

\* 2^MantBits, the float 1.0 in units of 2^-MantBits
MantOne == Pow2(MantBits)

MantHalf == MantOne \div 2

\* a non-negative float is m * 2^e with m = 0 or MantHalf <= m < MantOne
FZero == [m |-> 0, e |-> 0]

\* the powers of two below 2^31
Pow2Table == [k \in 0..(2 * MantBits) |-> Pow2(k)]

\* the number of bits of m, for 0 < m < 2^(2 * MantBits)
BitLen(m) == CHOOSE k \in 1..(2 * MantBits) : Pow2Table[k - 1] <= m /\ m < Pow2Table[k]

\* rounds toward zero to MantBits bits
Norm(m, e) ==
    IF m = 0 THEN FZero
    ELSE LET k == BitLen(m)
         IN  IF k >= MantBits
             THEN [m |-> m \div Pow2Table[k - MantBits], e |-> e + (k - MantBits)]
             ELSE [m |-> m * Pow2Table[MantBits - k], e |-> e - (MantBits - k)]

\* the product of two mantissas has 2 * MantBits - 1 or 2 * MantBits bits
FMul(a, b) ==
    IF a.m = 0 \/ b.m = 0 THEN FZero
    ELSE IF a.m * b.m >= Pow2Table[2 * MantBits - 1]
         THEN [m |-> (a.m * b.m) \div MantOne, e |-> a.e + b.e + MantBits]
         ELSE [m |-> (a.m * b.m) \div MantHalf, e |-> a.e + b.e + MantBits - 1]

FLeq(a, b) ==
    \/ a.m = 0
    \/ b.m # 0 /\ (a.e < b.e \/ (a.e = b.e /\ a.m <= b.m))

\* n / d for 0 <= n <= d <= 2^MantBits
FDiv(n, d) ==
    LET f == Norm(n, 0)
    IN  Norm((f.m * MantOne) \div d, f.e - MantBits)

FOne == [m |-> MantHalf, e |-> 1 - MantBits]

\* acc * sq ** n by binary exponentiation: sq is squared for each binary digit
\* of n and multiplied into acc where the digit is 1; zero stays zero
RECURSIVE PowBits(_, _, _)
PowBits(acc, sq, n) ==
    IF n = 0 THEN acc
    ELSE IF acc.m = 0 \/ sq.m = 0 THEN FZero
    ELSE PowBits(IF n % 2 = 1 THEN FMul(acc, sq) ELSE acc, FMul(sq, sq), n \div 2)

\* x ** n for a whole n >= 1
FPow(x, n) == PowBits(FOne, x, n)

\* one step of the root search narrows the interval by this factor
Fan == 8

\* (r / 2^MantBits) ** b >= target
Reaches(target, b, r) == FLeq(target, FPow(FDiv(r, MantOne), b))

\* the smallest r of lo+1..hi with (r / 2^MantBits) ** b >= target, when hi
\* is one and hi - lo is a power of Fan: the power is monotone in r, so r lies
\* in the first of the Fan sub-intervals whose upper end reaches the target
RECURSIVE Search(_, _, _, _)
Search(target, b, lo, hi) ==
    IF hi - lo = 1 THEN hi
    ELSE LET step == (hi - lo) \div Fan
             short == {j \in 1..(Fan - 1) : ~Reaches(target, b, lo + j * step)}
             r == lo + Cardinality(short) * step
         IN  Search(target, b, r, r + step)

\* x ** (a / b) in units of 2^-MantBits, for 0 <= x <= 1
PowFrac(x, a, b) ==
    LET target == FPow(x, a)
    IN  IF target.m = 0 THEN 0 ELSE Search(target, b, 0, MantOne)

\* mutant: the index is divided by the number of samples
NormXBySampleCount(i) == FDiv(i, SampleCount)

NormX(i) == FDiv(i, LastIndex)

\* norm_x ** exponent, the exponent 2.2 / gamma as a fraction in lowest terms
NormY(i, gamma) ==
    LET ex == Exponent(gamma)
        g == GCD(ex[1], ex[2])
    IN  PowFrac(NormX(i), ex[1] \div g, ex[2] \div g)

\* int(norm_y * 65535.0 + 0.5), then the clamp to 0..65535
ValInt(norm_y) ==
    Max(0, Min(OutputMax, (norm_y * OutputMax + MantHalf) \div MantOne))

\* gamma arguments of the range (0.1, 3.0], in tenths
GammaRange == 2..30

LutInit ==
    /\ calc \in {[op |-> "lut", gamma |-> g, lut |-> <<>>] : g \in GammaRange}
    /\ NoCalls

\* one pass of the loop: sample i is appended to the table
LutSample ==
    /\ calc.op = "lut"
    /\ Len(calc.lut) < SampleCount
    /\ calc' = [calc EXCEPT !.lut = Append(@, ValInt(NormY(Len(@), calc.gamma)))]
    /\ UNCHANGED <<callers, template, registry, dir, xmlFile, now, pc, args, loc, result,
                   hist, applierLog>>

LutNext == LutSample

LutSpec == LutInit /\ [][LutNext]_vars

\* the offsets from white of the chromaticity before and after the scaling
OffOld(k) == calc.old[k] - White[k]

Off1(k) == calc.new1[k] - White[k]

Off2(k) == calc.new2[k] - White[k]

\* C11: for saturation inputs s1 < s2 of [0.01, 4] the chromaticity produced
\* for s1 lies on the same side of white as, and at least as far from white
\* as, the one produced for s2; for s <= 1.0 it is at least as far from white
\* as the template's, for s >= 1.0 at most as far, and s = 1.0 leaves it
\* unchanged.
C11_MonotoneInSaturation ==
    (calc.op = "sat" /\ calc.done) =>
        \A k \in {1, 2} :
            /\ calc.s1 < calc.s2 =>
                   /\ Abs(Off1(k)) >= Abs(Off2(k))
                   /\ (Off1(k) >= 0 /\ Off2(k) >= 0) \/ (Off1(k) <= 0 /\ Off2(k) <= 0)
            /\ calc.s1 <= SatUnit => Abs(Off1(k)) >= Abs(OffOld(k))
            /\ calc.s1 >= SatUnit => Abs(Off1(k)) <= Abs(OffOld(k))
            /\ calc.s1 = SatUnit => calc.new1[k] = calc.old[k]

\* C11 witness: a primary left of white (negative x offset) was scaled for
\* s1 < 1.0 < s2, and s1 moved it strictly farther from white than s2
C11_Witness ==
    /\ calc.op = "sat" /\ calc.done
    /\ calc.s1 < SatUnit /\ SatUnit < calc.s2
    /\ OffOld(1) < 0
    /\ Abs(Off1(1)) > Abs(OffOld(1)) /\ Abs(OffOld(1)) > Abs(Off2(1))

\* C12: for every gamma of (0.1, 3.0] the table of 256 samples computed with
\* the exponent 2.2 / gamma is non-decreasing, each sample is a whole number
\* of 0..65535, the first sample is 0 and the last is 65535.
C12_CurveMonotoneInRange ==
    calc.op = "lut" =>
        /\ \A j \in 1..Len(calc.lut) :
               /\ calc.lut[j] \in 0..OutputMax
               /\ j > 1 => calc.lut[j - 1] <= calc.lut[j]
        /\ Len(calc.lut) >= 1 => calc.lut[1] = 0
        /\ Len(calc.lut) = SampleCount => calc.lut[SampleCount] = OutputMax

\* C12 witness: the whole table was computed for gamma 1.0 (exponent 2.2),
\* and its middle sample lies strictly between the ends, below the straight line
C12_Witness ==
    /\ calc.op = "lut" /\ calc.gamma = 10
    /\ Len(calc.lut) = SampleCount
    /\ calc.lut[128] > 0
    /\ calc.lut[128] < 127 * (OutputMax \div LastIndex)

\* C13: every binary profile a call has generated was converted from the
\* document that same call edited, also when two calls interleave (the claim
\* as stated).
C13_ConvertsOwnDocument ==
    \A f \in dir : f.by \in Calls => f.content = loc[f.by].tree

\* C14: whatever the directory held before, a call that returns success has
\* not deleted, in its prune step, the profile it generated itself (the claim
\* as stated).
C14_PruneKeepsOwnProfile ==
    \A c \in Calls :
        (Done(c) /\ result[c] = "success") =>
            IccPath(loc[c].timestamp) \notin hist[c].deleted

====
